---- MODULE Spec2Model ----
(***************************************************************************)
(* Model of server.js: a WebSocket game server.  One `players` Map shared  *)
(* by the connection handlers and two timers (simulation, snapshot).       *)
(*                                                                         *)
(* Numbers: positions and velocities are JavaScript doubles; the model     *)
(* keeps them in fixed point, FixedPoint units per pixel (and per          *)
(* pixel/second).  Date.now() is an integer number of milliseconds.        *)
(* A connection (its ws object, and the player object its handlers close   *)
(* over) is identified by an index in Conns.                               *)
(***************************************************************************)
EXTENDS Integers, Sequences, FiniteSets, TLC

(* ------------------------------ bounds --------------------------------- *)
MaxConns == 3          \* connections accepted in a run, at most
MaxMsgs == 2           \* inbound messages handled in a run, at most
MaxClock == 2          \* times the wall clock is seen to move in a run, at most

Conns == 1..MaxConns

\* A run is given a budget of environment events: many connections, or
\* fewer connections with messages and a moving clock.
Budgets ==
    { [conns |-> MaxConns, msgs |-> 0, clock |-> 0],
      [conns |-> 2, msgs |-> 1, clock |-> 1],
      [conns |-> 1, msgs |-> MaxMsgs, clock |-> MaxClock] }

(* --------------------------- value domains ----------------------------- *)
\* crypto.randomBytes(8).toString('hex'): 16 hex digits
HexIds == {<<"hex16", n>> : n \in 1..MaxConns}
\* Math.random().toString(36).slice(2, 9): at most 7 base-36 digits
Base36Ids == {<<"b36", n>> : n \in 1..MaxConns}
\* randomColor(): '#' + 6 hex digits
Colors == {"#1f77b4"}
\* req.socket.remoteAddress, as <<prefix, host>>
RemoteAddrs == {<<"::ffff:", "10.0.0.7">>, <<"", "10.0.0.7">>}
\* Math.random() in [0, 1), as a numerator over RandomDen; the two draws of
\* createPlayer, for x and for y
RandomDen == 6 * 10
SpawnDraws == {<<40, 30>>}
\* how far the wall clock moves between two events (ms)
ClockSteps == {500, 3000}
\* the timestamps a client puts in a ping
PingStamps == {7}

Dirs == {"up", "down", "left", "right"}

(* ----------------------------- numbers --------------------------------- *)
FixedPoint == 100      \* fixed-point units per pixel, and per pixel/second
DirScale == 1000       \* fixed-point units of a direction component
InvSqrt2 == 707        \* 1 / Math.sqrt(2) = 0.7071..., in DirScale units
MsPerSec == 1000
SPEED == 180
XMIN == 20
XMAX == 980
YMIN == 20
YMAX == 580

Px(n) == n * FixedPoint

Max(a, b) == IF a >= b THEN a ELSE b
Min(a, b) == IF a <= b THEN a ELSE b

\* Math.round: floor(v + 0.5), v in fixed point, result in whole units
MathRound(v) == (2 * v + FixedPoint) \div (2 * FixedPoint)

(* ------------------------- inbound messages ---------------------------- *)
\* JSON values of a field of msg.input, as JSON text ("absent": no such field)
FieldToks == {"absent", "true", "false", "1", "0", "null", "\"\"", "\"no\""}

Obj(u, d, l, r) == [up |-> u, down |-> d, left |-> l, right |-> r]

InputObjs ==
    { Obj("false", "false", "false", "true"),
      Obj("true", "absent", "true", "absent"),
      Obj("true", "true", "false", "false"),
      Obj("absent", "absent", "absent", "absent"),
      Obj("\"\"", "null", "0", "1"),
      Obj("absent", "\"no\"", "absent", "true") }

NoObj == Obj("absent", "absent", "absent", "absent")

\* kind: "garbage"  raw is not JSON
\*       "null"     raw is the JSON text null
\*       "input"    {type:'input', input:{...}}
\*       "input_noobj"  {type:'input'}
\*       "ping"     {type:'ping', ts}
\*       "unknown"  {type:'chat'}
Messages ==
    { [kind |-> "input", input |-> o, ts |-> 0] : o \in InputObjs }
    \cup { [kind |-> "ping", input |-> NoObj, ts |-> t] : t \in PingStamps }
    \cup { [kind |-> k, input |-> NoObj, ts |-> 0] :
              k \in {"garbage", "null", "input_noobj", "unknown"} }

NoMsg == [kind |-> "none", input |-> NoObj, ts |-> 0]

(* ------------------------------ state ---------------------------------- *)
VARIABLES
    readyState,   \* ws.readyState of each connection ("NONE": not accepted yet)
    player,       \* the player object created for each connection
    players,      \* the Map: sequence of [key, val] in insertion order
    props,        \* own properties set on the Map object: players[id] = {...}
    closure,      \* the const id and ip of each connection handler's scope
    now,          \* Date.now()
    lastTime,     \* lastTime of the simulation loop
    sent,         \* the ws.send calls of the handler that ran last
    last,         \* the handler that ran last, and its input
    nmsgs,        \* inbound messages handled so far
    nclock,       \* clock movements so far
    budget,       \* the run's budget of environment events
    uncaught      \* an exception has left a handler (Node ends the process)

vars == <<readyState, player, players, props, closure, now, lastTime,
          sent, last, nmsgs, nclock, budget, uncaught>>

NoInput == [d \in Dirs |-> FALSE]

NoPlayer == [id |-> <<"hex16", 0>>, x |-> 0, y |-> 0, vx |-> 0, vy |-> 0,
             speed |-> 0, input |-> NoInput, color |-> "", lastSeen |-> 0]


(* ------------------------------ Map ------------------------------------ *)
MapKeys(m) == {m[i].key : i \in 1..Len(m)}
MapVals(m) == {m[i].val : i \in 1..Len(m)}
MapHas(m, k) == k \in MapKeys(m)
MapGet(m, k) == (CHOOSE i \in 1..Len(m) : m[i].key = k)
\* Map.prototype.set / property assignment: an existing key keeps its place
MapSet(m, k, v) ==
    IF MapHas(m, k)
    THEN [i \in 1..Len(m) |-> IF m[i].key = k THEN [key |-> k, val |-> v] ELSE m[i]]
    ELSE Append(m, [key |-> k, val |-> v])
MapDelete(m, k) == SelectSeq(m, LAMBDA e : e.key # k)

(* --------------------------- createPlayer ------------------------------ *)
createPlayer(id, rx, ry, color, t) ==
    [id |-> id,
     x |-> (rx * Px(600)) \div RandomDen + Px(100),
     y |-> (ry * Px(400)) \div RandomDen + Px(100),
     vx |-> 0, vy |-> 0,
     speed |-> SPEED,
     input |-> NoInput,
     color |-> color,
     lastSeen |-> t]

(* ----------------------------- broadcast ------------------------------- *)
\* a broadcast that does not look at readyState
broadcastIgnoringReadyState(m, rs, obj) ==
    [i \in 1..Len(m) |-> [to |-> m[i].val, msg |-> obj]]

\* one ws.send(raw) per Map entry whose socket is OPEN, in Map order
broadcast(m, rs, obj) ==
    LET open == SelectSeq(m, LAMBDA e : rs[e.val] = "OPEN")
    IN  [i \in 1..Len(open) |-> [to |-> open[i].val, msg |-> obj]]

(* ------------------------- wss.on('connection') ------------------------ *)
\* remoteAddress.replace("::ffff:", "")
CleanIp(addr) == IF addr[1] = "::ffff:" THEN <<"", addr[2]>> ELSE addr

\* Object.entries(players).map(...): the own properties of the Map object,
\* not the Map's entries
JoinSnapshot(ps) ==
    [i \in 1..Len(ps) |->
        [id |-> ps[i].key, x |-> ps[i].val.x, y |-> ps[i].val.y,
         vx |-> ps[i].val.vx, vy |-> ps[i].val.vy,
         color |-> ps[i].val.color, ip |-> ps[i].val.ip]]

\* The values a random draw of an id is taken from.  Ids are opaque, so the
\* draws that differ from every id drawn before are represented by one of
\* them; a draw may also repeat any id drawn before.
Drawn(ids, used) ==
    used \cup {k \in ids : k[2] = 1 + Cardinality(used)}

Event(op, c, m, caught) == [op |-> op, conn |-> c, msg |-> m, caught |-> caught]

Connection(c) ==
    /\ readyState[c] = "NONE"
    /\ c <= budget.conns
    /\ \A b \in Conns : b < c => readyState[b] # "NONE"
    /\ \E pid \in Drawn(HexIds, {player[b].id : b \in 1..(c - 1)}),
          id \in Drawn(Base36Ids, {closure[b].id : b \in 1..(c - 1)}),
          draws \in SpawnDraws, col \in Colors, addr \in RemoteAddrs, scol \in Colors :
        LET p    == createPlayer(pid, draws[1], draws[2], col, now)
            ip   == CleanIp(addr)
            rs1  == [readyState EXCEPT ![c] = "OPEN"]
            m1   == MapSet(players, p.id, c)
            ps1  == MapSet(props, id,
                       [x |-> Px(100), y |-> Px(100), vx |-> 0, vy |-> 0,
                        color |-> scol, ip |-> ip])
        IN  /\ readyState' = rs1
            /\ player' = [player EXCEPT ![c] = p]
            /\ players' = m1
            /\ props' = ps1
            /\ closure' = [closure EXCEPT ![c] = [id |-> id, ip |-> ip]]
            /\ sent' = <<[to |-> c, msg |-> [type |-> "welcome", id |-> id, ip |-> ip]]>>
                       \o broadcast(m1, rs1, [type |-> "snapshot", players |-> JoinSnapshot(ps1)])
                       \o broadcast(m1, rs1, [type |-> "player_join", id |-> p.id,
                                              x |-> p.x, y |-> p.y, color |-> p.color])
            /\ last' = Event("connection", c, NoMsg, FALSE)
    /\ UNCHANGED <<now, lastTime, nmsgs, nclock, budget, uncaught>>

(* --------------------------- ws.on('close') ---------------------------- *)
\* the socket leaves OPEN (close frame received, or transport error); the
\* 'close' event comes later
BeginClose(c) ==
    /\ readyState[c] = "OPEN"
    /\ readyState' = [readyState EXCEPT ![c] = "CLOSING"]
    /\ sent' = <<>>
    /\ last' = Event("closing", c, NoMsg, FALSE)
    /\ UNCHANGED <<player, players, props, closure, now, lastTime, nmsgs, nclock, budget, uncaught>>

\* a close handler that announces the scope's `id` instead of player.id
CloseAnnouncingScopeId(c) ==
    /\ readyState[c] \in {"OPEN", "CLOSING"}
    /\ LET rs1 == [readyState EXCEPT ![c] = "CLOSED"]
           m1  == MapDelete(players, player[c].id)
       IN  /\ readyState' = rs1
           /\ players' = m1
           /\ sent' = broadcast(m1, rs1, [type |-> "remove", id |-> closure[c].id])
    /\ last' = Event("close", c, NoMsg, FALSE)
    /\ UNCHANGED <<player, props, closure, now, lastTime, nmsgs, nclock, budget, uncaught>>

\* the socket becomes CLOSED and 'close' is emitted
Close(c) ==
    /\ readyState[c] \in {"OPEN", "CLOSING"}
    /\ LET rs1 == [readyState EXCEPT ![c] = "CLOSED"]
           m1  == MapDelete(players, player[c].id)
       IN  /\ readyState' = rs1
           /\ players' = m1
           /\ sent' = broadcast(m1, rs1, [type |-> "remove", id |-> player[c].id])
    /\ last' = Event("close", c, NoMsg, FALSE)
    /\ UNCHANGED <<player, props, closure, now, lastTime, nmsgs, nclock, budget, uncaught>>

(* -------------------- ws.on('message'), handleMessage ------------------ *)
\* !!v
ToBoolean(tok) == tok \notin {"absent", "false", "0", "null", "\"\""}

\* a handler that merges a partial input into the stored one
handleMessageMerging(c, p, msg, t) ==
    LET seen == [p EXCEPT !.lastSeen = t]
    IN  CASE msg.kind \in {"null", "input_noobj"} ->
               [player |-> seen, sends |-> <<>>, threw |-> TRUE]
          [] msg.kind = "input" ->
               [player |-> [seen EXCEPT !.input =
                              [d \in Dirs |-> IF msg.input[d] = "absent" THEN p.input[d]
                                              ELSE ToBoolean(msg.input[d])]],
                sends |-> <<>>, threw |-> FALSE]
          [] msg.kind = "ping" ->
               [player |-> seen,
                sends |-> <<[to |-> c, msg |-> [type |-> "pong", ts |-> msg.ts]]>>,
                threw |-> FALSE]
          [] OTHER ->
               [player |-> seen, sends |-> <<>>, threw |-> FALSE]

\* a handler that answers a ping through broadcast
handleMessagePongToAll(c, p, msg, t) ==
    LET seen == [p EXCEPT !.lastSeen = t]
    IN  CASE msg.kind \in {"null", "input_noobj"} ->
               [player |-> seen, sends |-> <<>>, threw |-> TRUE]
          [] msg.kind = "input" ->
               [player |-> [seen EXCEPT !.input = [d \in Dirs |-> ToBoolean(msg.input[d])]],
                sends |-> <<>>, threw |-> FALSE]
          [] msg.kind = "ping" ->
               [player |-> seen,
                sends |-> broadcast(players, readyState, [type |-> "pong", ts |-> msg.ts]),
                threw |-> FALSE]
          [] OTHER ->
               [player |-> seen, sends |-> <<>>, threw |-> FALSE]

\* a handler that reads (msg.input || {}) and so stores an idle input
handleMessageDefaultingInput(c, p, msg, t) ==
    LET seen == [p EXCEPT !.lastSeen = t]
    IN  CASE msg.kind = "null" ->
               [player |-> seen, sends |-> <<>>, threw |-> TRUE]
          [] msg.kind = "input_noobj" ->
               [player |-> [seen EXCEPT !.input = NoInput], sends |-> <<>>, threw |-> FALSE]
          [] msg.kind = "input" ->
               [player |-> [seen EXCEPT !.input = [d \in Dirs |-> ToBoolean(msg.input[d])]],
                sends |-> <<>>, threw |-> FALSE]
          [] msg.kind = "ping" ->
               [player |-> seen,
                sends |-> <<[to |-> c, msg |-> [type |-> "pong", ts |-> msg.ts]]>>,
                threw |-> FALSE]
          [] OTHER ->
               [player |-> seen, sends |-> <<>>, threw |-> FALSE]

\* a handler that also stops the entity when it stores an input, ahead of
\* the next tick
handleMessageSettingVelocity(c, p, msg, t) ==
    LET seen == [p EXCEPT !.lastSeen = t]
    IN  CASE msg.kind = "null" ->
               [player |-> seen, sends |-> <<>>, threw |-> TRUE]
          [] msg.kind = "input_noobj" ->
               [player |-> seen, sends |-> <<>>, threw |-> TRUE]
          [] msg.kind = "input" ->
               [player |-> [seen EXCEPT !.input = [d \in Dirs |-> ToBoolean(msg.input[d])],
                                        !.vx = 0, !.vy = 0],
                sends |-> <<>>, threw |-> FALSE]
          [] msg.kind = "ping" ->
               [player |-> seen,
                sends |-> <<[to |-> c, msg |-> [type |-> "pong", ts |-> msg.ts]]>>,
                threw |-> FALSE]
          [] OTHER ->
               [player |-> seen, sends |-> <<>>, threw |-> FALSE]

\* handleMessage(player, msg): the player object afterwards, the ws.send
\* calls made, and whether it threw
handleMessage(c, p, msg, t) ==
    LET seen == [p EXCEPT !.lastSeen = t]
    IN  CASE msg.kind = "null" ->
               [player |-> seen, sends |-> <<>>, threw |-> TRUE]
          [] msg.kind = "input_noobj" ->
               [player |-> seen, sends |-> <<>>, threw |-> TRUE]
          [] msg.kind = "input" ->
               [player |-> [seen EXCEPT !.input = [d \in Dirs |-> ToBoolean(msg.input[d])]],
                sends |-> <<>>, threw |-> FALSE]
          [] msg.kind = "ping" ->
               [player |-> seen,
                sends |-> <<[to |-> c, msg |-> [type |-> "pong", ts |-> msg.ts]]>>,
                threw |-> FALSE]
          [] OTHER ->
               [player |-> seen, sends |-> <<>>, threw |-> FALSE]

\* ws.send on a socket that is not OPEN: the ws library either drops the
\* data or throws, depending on its version
SendMayThrow(c, sends) ==
    IF sends # <<>> /\ readyState[c] # "OPEN" THEN BOOLEAN ELSE {FALSE}

\* a message handler without the try block
OnMessageNoTry(c, msg) ==
    /\ readyState[c] # "NONE"
    /\ nmsgs < budget.msgs
    /\ nmsgs' = nmsgs + 1
    /\ IF msg.kind = "garbage"
       THEN /\ player' = player
            /\ sent' = <<>>
            /\ last' = Event("message", c, msg, FALSE)
            /\ uncaught' = TRUE
       ELSE LET r == handleMessage(c, player[c], msg, now)
            IN  \E sendThrows \in SendMayThrow(c, r.sends) :
                /\ player' = [player EXCEPT ![c] = r.player]
                /\ sent' = r.sends
                /\ last' = Event("message", c, msg, FALSE)
                /\ uncaught' = (uncaught \/ r.threw \/ sendThrows)
    /\ UNCHANGED <<readyState, players, props, closure, now, lastTime, nclock, budget>>

\* a message handler that puts the sender's entity back into the Map
OnMessageUpserting(c, msg) ==
    /\ readyState[c] # "NONE"
    /\ nmsgs < budget.msgs
    /\ nmsgs' = nmsgs + 1
    /\ players' = MapSet(players, player[c].id, c)
    /\ IF msg.kind = "garbage"
       THEN /\ player' = player
            /\ sent' = <<>>
            /\ last' = Event("message", c, msg, TRUE)
       ELSE LET r == handleMessage(c, player[c], msg, now)
            IN  \E sendThrows \in SendMayThrow(c, r.sends) :
                /\ player' = [player EXCEPT ![c] = r.player]
                /\ sent' = r.sends
                /\ last' = Event("message", c, msg, r.threw \/ sendThrows)
    /\ UNCHANGED <<readyState, props, closure, now, lastTime, nclock, budget, uncaught>>

\* try { msg = JSON.parse(raw); handleMessage(player, msg) } catch { warn }
\* Whatever the try block throws is caught; nothing is rethrown.
OnMessage(c, msg) ==
    /\ readyState[c] # "NONE"
    /\ nmsgs < budget.msgs
    /\ nmsgs' = nmsgs + 1
    /\ IF msg.kind = "garbage"
       THEN /\ player' = player
            /\ sent' = <<>>
            /\ last' = Event("message", c, msg, TRUE)
       ELSE LET r == handleMessage(c, player[c], msg, now)
            IN  \E sendThrows \in SendMayThrow(c, r.sends) :
                /\ player' = [player EXCEPT ![c] = r.player]
                /\ sent' = r.sends
                /\ last' = Event("message", c, msg, r.threw \/ sendThrows)
    /\ UNCHANGED <<readyState, players, props, closure, now, lastTime, nclock, budget, uncaught>>

(* -------------------------- simulation loop ---------------------------- *)
Axis(neg, pos) == (IF pos THEN 1 ELSE 0) - (IF neg THEN 1 ELSE 0)

\* a direction that is not normalised on diagonals
DirectionUnnormalised(input) ==
    [dx |-> Axis(input.left, input.right) * DirScale,
     dy |-> Axis(input.up, input.down) * DirScale]

\* the direction (dx, dy) of an input, in DirScale units
Direction(input) ==
    LET dx == Axis(input.left, input.right)
        dy == Axis(input.up, input.down)
    IN  IF dx # 0 /\ dy # 0
        THEN [dx |-> dx * InvSqrt2, dy |-> dy * InvSqrt2]
        ELSE [dx |-> dx * DirScale, dy |-> dy * DirScale]

\* p.vx = dx * p.speed, in FixedPoint units
Velocity(d, speed) == (d * speed * FixedPoint) \div DirScale

\* a clamp that forgets the lower bound
ClampUpperOnly(lo, hi, v) == Min(Px(hi), v)

\* Math.max(lo, Math.min(hi, v))
Clamp(lo, hi, v) == Max(Px(lo), Min(Px(hi), v))

\* a loop body that adds to the velocity instead of assigning it
TickPlayerAccumulating(p, dt) ==
    LET dir == Direction(p.input)
        vx == p.vx + Velocity(dir.dx, p.speed)
        vy == p.vy + Velocity(dir.dy, p.speed)
    IN  [p EXCEPT !.vx = vx, !.vy = vy,
                  !.x = Clamp(XMIN, XMAX, p.x + (vx * dt) \div MsPerSec),
                  !.y = Clamp(YMIN, YMAX, p.y + (vy * dt) \div MsPerSec)]

\* a loop body that assumes half a second between ticks instead of
\* measuring dt
TickPlayerAssumingPeriod(p, dt) ==
    LET dir == Direction(p.input)
        vx == Velocity(dir.dx, p.speed)
        vy == Velocity(dir.dy, p.speed)
    IN  [p EXCEPT !.vx = vx, !.vy = vy,
                  !.x = Clamp(XMIN, XMAX, p.x + vx \div 2),
                  !.y = Clamp(YMIN, YMAX, p.y + vy \div 2)]

\* a loop body that integrates the velocity of the previous tick
TickPlayerStaleStep(p, dt) ==
    LET dir == Direction(p.input)
    IN  [p EXCEPT !.vx = Velocity(dir.dx, p.speed),
                  !.vy = Velocity(dir.dy, p.speed),
                  !.x = Clamp(XMIN, XMAX, p.x + (p.vx * dt) \div MsPerSec),
                  !.y = Clamp(YMIN, YMAX, p.y + (p.vy * dt) \div MsPerSec)]

\* a loop body that consumes the input it has applied
TickPlayerClearingInput(p, dt) ==
    LET dir == Direction(p.input)
        vx == Velocity(dir.dx, p.speed)
        vy == Velocity(dir.dy, p.speed)
    IN  [p EXCEPT !.vx = vx, !.vy = vy, !.input = NoInput,
                  !.x = Clamp(XMIN, XMAX, p.x + (vx * dt) \div MsPerSec),
                  !.y = Clamp(YMIN, YMAX, p.y + (vy * dt) \div MsPerSec)]

\* the body of the for loop, for one player; dt in ms
TickPlayer(p, dt) ==
    LET dir == Direction(p.input)
        vx == Velocity(dir.dx, p.speed)
        vy == Velocity(dir.dy, p.speed)
    IN  [p EXCEPT !.vx = vx, !.vy = vy,
                  !.x = Clamp(XMIN, XMAX, p.x + (vx * dt) \div MsPerSec),
                  !.y = Clamp(YMIN, YMAX, p.y + (vy * dt) \div MsPerSec)]

Tick ==
    /\ player' = [c \in Conns |->
                    IF c \in MapVals(players)
                    THEN TickPlayer(player[c], now - lastTime) ELSE player[c]]
    /\ lastTime' = now
    /\ sent' = <<>>
    /\ last' = Event("tick", 0, NoMsg, FALSE)
    /\ UNCHANGED <<readyState, players, props, closure, now, nmsgs, nclock, budget, uncaught>>

(* ------------------------- snapshot broadcaster ------------------------ *)
SnapshotEntry(p) ==
    [id |-> p.id, x |-> MathRound(p.x), y |-> MathRound(p.y),
     vx |-> MathRound(p.vx), vy |-> MathRound(p.vy), color |-> p.color]

PeriodicSnapshot(m, pl, t) ==
    [type |-> "snapshot", ts |-> t,
     players |-> [i \in 1..Len(m) |-> SnapshotEntry(pl[m[i].val])]]

Snapshot ==
    /\ sent' = broadcast(players, readyState, PeriodicSnapshot(players, player, now))
    /\ last' = Event("snapshot", 0, NoMsg, FALSE)
    /\ UNCHANGED <<readyState, player, players, props, closure, now, lastTime,
                   nmsgs, nclock, budget, uncaught>>

(* ---------------------------- the clock -------------------------------- *)
\* Date.now() is seen to have moved by d ms
AdvanceTime(d) ==
    /\ nclock < budget.clock
    /\ nclock' = nclock + 1
    /\ now' = now + d
    /\ sent' = <<>>
    /\ last' = Event("clock", 0, NoMsg, FALSE)
    /\ UNCHANGED <<readyState, player, players, props, closure, lastTime, nmsgs, budget, uncaught>>

(* --------------------------- specification ----------------------------- *)
InitState ==
    /\ readyState = [c \in Conns |-> "NONE"]
    /\ player = [c \in Conns |-> NoPlayer]
    /\ players = <<>>
    /\ props = <<>>
    /\ closure = [c \in Conns |-> [id |-> <<"b36", 0>>, ip |-> <<"", "">>]]
    /\ now = 0
    /\ lastTime = 0
    /\ sent = <<>>
    /\ last = Event("init", 0, NoMsg, FALSE)
    /\ nmsgs = 0
    /\ nclock = 0
    /\ uncaught = FALSE

Init ==
    /\ InitState
    /\ budget \in Budgets

Next ==
    \/ \E c \in Conns : Connection(c)
    \/ \E c \in Conns : BeginClose(c)
    \/ \E c \in Conns : Close(c)
    \/ \E c \in Conns, msg \in Messages : OnMessage(c, msg)
    \/ Tick
    \/ Snapshot
    \/ \E d \in ClockSteps : AdvanceTime(d)

Spec == Init /\ [][Next]_vars

(* One connection that sends one input message, of any of the 16            *)
(* combinations of the four booleans.                                       *)
BoolInputs ==
    { [kind |-> "input", input |-> Obj(u, d, l, r), ts |-> 0] :
         u \in {"true", "false"}, d \in {"true", "false"},
         l \in {"true", "false"}, r \in {"true", "false"} }

InitKeys ==
    /\ InitState
    /\ budget = [conns |-> 1, msgs |-> 1, clock |-> 1]

NextKeys ==
    \/ \E c \in Conns : Connection(c)
    \/ \E c \in Conns, msg \in BoolInputs : OnMessage(c, msg)
    \/ Tick
    \/ \E d \in ClockSteps : AdvanceTime(d)

SpecKeys == InitKeys /\ [][NextKeys]_vars

(* One connection whose client presses right and releases it exactly one    *)
(* second later (by the server's clock at the handling of the two           *)
(* messages), with ticks and clock movements falling anywhere.              *)
RightDown == [kind |-> "input", input |-> Obj("false", "false", "false", "true"), ts |-> 0]
RightUp == [kind |-> "input", input |-> Obj("false", "false", "false", "false"), ts |-> 0]

Press ==
    /\ nmsgs = 0
    /\ OnMessage(1, RightDown)

Release ==
    /\ nmsgs = 1
    /\ now = player[1].lastSeen + MsPerSec
    /\ OnMessage(1, RightUp)

InitHold ==
    /\ InitState
    /\ budget = [conns |-> 1, msgs |-> 2, clock |-> 4]

NextHold ==
    \/ Connection(1)
    \/ Press
    \/ Release
    \/ Tick
    \/ \E d \in ClockSteps : AdvanceTime(d)

SpecHold == InitHold /\ [][NextHold]_vars

(* ======================================================================= *)
(*                               Properties                                *)
(* ======================================================================= *)
Registered == MapVals(players)
Live(c) == readyState[c] \in {"OPEN", "CLOSING"}
Sends(to, obj) == {i \in 1..Len(sent) : sent[i].to = to /\ sent[i].msg = obj}
SendsOfType(ty) == {i \in 1..Len(sent) : sent[i].msg.type = ty}

InWorld(x, y, unit) ==
    /\ XMIN * unit <= x /\ x <= XMAX * unit
    /\ YMIN * unit <= y /\ y <= YMAX * unit

\* C1: every entity in the Registry is inside [20, 980] x [20, 580], and so
\* is every x/y of every entry of a periodic snapshot that is sent.
C1_PositionsInWorld ==
    /\ \A c \in Registered : InWorld(player[c].x, player[c].y, FixedPoint)
    /\ last.op = "snapshot" =>
         \A i \in 1..Len(sent) : \A j \in 1..Len(sent[i].msg.players) :
            InWorld(sent[i].msg.players[j].x, sent[i].msg.players[j].y, 1)

\* a periodic snapshot is delivered that lists an entity held at the right
\* wall by the clamp while its velocity still points right
C1_Witness ==
    /\ last.op = "snapshot"
    /\ \E i \in 1..Len(sent) : \E j \in 1..Len(sent[i].msg.players) :
          /\ sent[i].msg.players[j].x = XMAX
          /\ sent[i].msg.players[j].vx = SPEED

\* C2: the close handler of A sends exactly one remove carrying A's id to
\* each connection that is registered and OPEN afterwards, none to A and
\* nothing else; and a remove is only ever sent by the close handler of a
\* connection that was not closed before, so never a second time.
C2_CloseStep ==
    /\ last'.op = "close" =>
         LET a == last'.conn
             rm == [type |-> "remove", id |-> player[a].id]
         IN  /\ \A r \in Conns :
                  Cardinality({i \in 1..Len(sent') : sent'[i].to = r /\ sent'[i].msg = rm})
                    = IF r \in MapVals(players') /\ readyState'[r] = "OPEN" THEN 1 ELSE 0
             /\ a \notin {sent'[i].to : i \in 1..Len(sent')}
             /\ \A i \in 1..Len(sent') : sent'[i].msg = rm
    /\ (\E i \in 1..Len(sent') : sent'[i].msg.type = "remove") =>
         /\ last'.op = "close"
         /\ readyState[last'.conn] # "CLOSED"
         /\ readyState'[last'.conn] = "CLOSED"

C2_ExactlyOneRemove == [][C2_CloseStep]_vars

\* A closes while two other connections are registered and OPEN: two sends
C2_Witness ==
    /\ last.op = "close"
    /\ Len(sent) = 2
    /\ sent[1].to # sent[2].to
\* the connection whose handler last wrote the own property k of the Map object
Owner(k) ==
    CHOOSE c \in Conns :
        /\ readyState[c] # "NONE" /\ closure[c].id = k
        /\ \A b \in Conns : (readyState[b] # "NONE" /\ closure[b].id = k) => b <= c

\* the connection each entry of the snapshot sent by the last handler was
\* built from: the join-time snapshot lists the own properties, the periodic
\* one the Map's values
EntrySource(j) ==
    IF last.op = "connection" THEN Owner(props[j].key) ELSE players[j].val

\* C3: no snapshot that is sent holds an entry created for a connection
\* whose close event has been handled.
C3_NoDepartedInSnapshot ==
    \A i \in SendsOfType("snapshot") :
        \A j \in 1..Len(sent[i].msg.players) : readyState[EntrySource(j)] # "CLOSED"

\* C4: the id of the welcome message is the id of the entity inserted into
\* the Registry for the connection (the id of its player_join).
C4_WelcomeIdIsEntityId ==
    last.op = "connection" =>
        \A i \in SendsOfType("welcome") :
            /\ sent[i].msg.id = player[last.conn].id
            /\ \A k \in SendsOfType("player_join") : sent[k].msg.id = sent[i].msg.id

\* C5: the player_join of a new connection goes exactly once to every other
\* registered OPEN connection and never to the new connection.
C5_JoinToOthersOnly ==
    last.op = "connection" =>
        \A r \in Conns :
            Cardinality({i \in SendsOfType("player_join") : sent[i].to = r})
              = IF r # last.conn /\ r \in Registered /\ readyState[r] = "OPEN"
                THEN 1 ELSE 0

\* C6: two connections that are both accepted and not yet closed have
\* different entity ids.
C6_LiveIdsDistinct ==
    \A a, b \in Conns :
        (a # b /\ Live(a) /\ Live(b)) => player[a].id # player[b].id

\* C7: every accepted connection whose close has not been handled has exactly
\* one record in the Registry, and the Registry has no record of a connection
\* whose close has been handled.
C7_OneRecordPerLiveConnection ==
    /\ \A c \in Conns :
          Live(c) => Cardinality({i \in 1..Len(players) : players[i].val = c}) = 1
    /\ \A i \in 1..Len(players) : readyState[players[i].val] # "CLOSED"

\* speed times the unit direction of an input, one component: 0 when the two
\* keys of the axis agree, else the speed, divided by sqrt(2) when the other
\* axis moves too
SpeedTimesUnit(neg, pos, otherNeg, otherPos, speed) ==
    IF neg = pos THEN 0
    ELSE (IF pos THEN 1 ELSE -1) *
         (IF otherNeg = otherPos THEN speed * FixedPoint
          ELSE (speed * FixedPoint * InvSqrt2) \div DirScale)

VelocityDerived(p) ==
    /\ p.vx = SpeedTimesUnit(p.input.left, p.input.right, p.input.up, p.input.down, p.speed)
    /\ p.vy = SpeedTimesUnit(p.input.up, p.input.down, p.input.left, p.input.right, p.speed)

\* C8 as stated: in every reachable state each registered entity's velocity is
\* speed times the unit direction of its stored input.
C8_VelocityAlwaysDerived ==
    \A c \in Registered : VelocityDerived(player[c])

\* C8 amended: a registered entity's velocity is speed times the unit
\* direction of its stored input when it is created and after every
\* simulation tick, and stays so until an input message of its connection
\* is handled; from then until the next tick the stored velocity is still the
\* one derived from the earlier input.
C8_Step ==
    \A c \in MapVals(players') :
        \/ VelocityDerived(player'[c])
        \/ last'.op = "message" /\ last'.msg.kind = "input" /\ last'.conn = c
        \/ last'.op # "tick" /\ c \in MapVals(players) /\ ~VelocityDerived(player[c])

C8_VelocityDerivedAtTick == [][C8_Step]_vars

\* a tick has just given a registered entity a diagonal velocity
C8_Witness ==
    /\ last.op = "tick"
    /\ \E c \in Registered :
          /\ player[c].vx < 0 /\ player[c].vy < 0
          /\ VelocityDerived(player[c])

(* the tokens !! turns into true *)
TruthyToks == {"true", "1", "\"no\""}

\* C9: after an input message with an input object, each stored boolean of
\* the sender is the coercion of the message's field: true for a truthy
\* value, false for a falsy or absent one, whatever was stored before.
C9_InputReplaced ==
    (last.op = "message" /\ last.msg.kind = "input") =>
        \A d \in Dirs :
            player[last.conn].input[d] = (last.msg.input[d] \in TruthyToks)

\* an input message without `right` has been handled for an entity that a
\* tick had moved right under its earlier input: right is now false
C9_Witness ==
    /\ last.op = "message" /\ last.msg.kind = "input"
    /\ last.msg.input["right"] = "absent"
    /\ last.msg.input["up"] = "true"
    /\ player[last.conn].vx > 0
    /\ ~player[last.conn].input["right"]
    /\ player[last.conn].input["up"]

\* C10: handling a ping sends one pong with the ping's ts to the sender and
\* nothing else, and changes no entity's input, position or velocity.
C10_Step ==
    (last'.op = "message" /\ last'.msg.kind = "ping") =>
        /\ sent' = <<[to |-> last'.conn, msg |-> [type |-> "pong", ts |-> last'.msg.ts]]>>
        /\ \A c \in Conns :
              /\ player'[c].input = player[c].input
              /\ player'[c].x = player[c].x /\ player'[c].y = player[c].y
              /\ player'[c].vx = player[c].vx /\ player'[c].vy = player[c].vy
        /\ players' = players

C10_PingAnsweredToSenderOnly == [][C10_Step]_vars

\* a ping has been handled while another connection is registered and OPEN
C10_Witness ==
    /\ last.op = "message" /\ last.msg.kind = "ping"
    /\ Len(sent) = 1 /\ sent[1].msg.type = "pong"
    /\ \E r \in Registered : r # last.conn /\ readyState[r] = "OPEN"
(* the kinematic state of a player object *)
Kinematics(p) == <<p.x, p.y, p.vx, p.vy>>

\* C11: a message that is not JSON, is JSON null, has an unknown type or is
\* an input message without an input object is dropped: no socket changes
\* its readyState, the Registry keeps its entries, no player object changes
\* its input, position or velocity, nothing is sent, and no exception leaves
\* the handler (what was thrown was caught).
C11_Step ==
    (last'.op = "message"
        /\ last'.msg.kind \in {"garbage", "null", "unknown", "input_noobj"}) =>
        /\ readyState' = readyState
        /\ players' = players
        /\ \A c \in Conns :
              /\ player'[c].input = player[c].input
              /\ Kinematics(player'[c]) = Kinematics(player[c])
        /\ sent' = <<>>
        /\ ~uncaught'
        /\ last'.caught = (last'.msg.kind # "unknown")

C11_MalformedDropped == [][C11_Step]_vars

\* an input message without an input object has been handled for a
\* registered OPEN connection whose stored input holds a key down
C11_Witness ==
    /\ last.op = "message" /\ last.msg.kind = "input_noobj"
    /\ last.caught
    /\ last.conn \in Registered /\ readyState[last.conn] = "OPEN"
    /\ player[last.conn].input["right"]
    /\ player[last.conn].lastSeen = now /\ now > 0
Writable == {r \in Registered : readyState[r] = "OPEN"}

\* the sends of type ty go once to each writable registered connection, to
\* no other connection, and carry one payload
DeliveredToWritable(ty) ==
    /\ \A r \in Conns :
          Cardinality({i \in SendsOfType(ty) : sent[i].to = r})
            = IF r \in Writable THEN 1 ELSE 0
    /\ \A i, k \in SendsOfType(ty) : sent[i].msg = sent[k].msg

\* C12: every broadcast (periodic snapshot, remove, join-time snapshot,
\* player_join) reaches each registered connection whose socket is OPEN once,
\* with one payload, and no connection whose socket is not OPEN; a handler
\* that broadcasts nothing sends nothing to them, so a skipped message is
\* not delivered later.
C12_BroadcastToWritable ==
    /\ last.op = "snapshot" =>
          DeliveredToWritable("snapshot") /\ SendsOfType("snapshot") = 1..Len(sent)
    /\ last.op = "close" =>
          DeliveredToWritable("remove") /\ SendsOfType("remove") = 1..Len(sent)
    /\ last.op = "connection" =>
          DeliveredToWritable("snapshot") /\ DeliveredToWritable("player_join")
    /\ last.op \in {"init", "tick", "clock", "closing"} => sent = <<>>
    /\ last.op = "message" =>
          \A i \in 1..Len(sent) : sent[i].to = last.conn /\ sent[i].msg.type = "pong"

\* a periodic snapshot went to the one OPEN connection and skipped a
\* registered connection whose socket is CLOSING
C12_Witness ==
    /\ last.op = "snapshot"
    /\ Len(sent) = 1
    /\ \E r \in Registered : readyState[r] = "CLOSING"
\* C13: once a handler that broadcasts has run, no entity whose socket is
\* not OPEN is left in the Registry.
C13_PrunedByBroadcast ==
    last.op \in {"snapshot", "close", "connection"} =>
        \A c \in Registered : readyState[c] = "OPEN"
Abs(n) == IF n < 0 THEN -n ELSE n
Sq(n) == n * n

\* one unit of direction resolution, as a velocity
VelocityResolution == (SPEED * FixedPoint) \div DirScale

\* C14: for each of the 16 inputs the direction has, on each axis, the sign
\* of the algebraic sum of the two keys (0 when they agree); it is scaled
\* below 1 exactly when both axes are non-zero; its squared magnitude is 0
\* when no axis is active and 1 (to the resolution of 1/sqrt(2)) otherwise,
\* never 2.  The velocity a tick stores has the matching magnitude.
C14_DirectionUnitOrZero ==
    \A c \in Registered :
        LET i  == player[c].input
            d  == Direction(i)
            ax == i.left # i.right
            ay == i.up # i.down
            m2 == Sq(d.dx) + Sq(d.dy)
            v2 == Sq(player[c].vx) + Sq(player[c].vy)
        IN  /\ (d.dx > 0) = (i.right /\ ~i.left)
            /\ (d.dx < 0) = (i.left /\ ~i.right)
            /\ (d.dy > 0) = (i.down /\ ~i.up)
            /\ (d.dy < 0) = (i.up /\ ~i.down)
            /\ (ax /\ ay) = (d.dx # 0 /\ Abs(d.dx) < DirScale)
            /\ (ax /\ ay) => Abs(d.dx) = Abs(d.dy)
            /\ IF ~ax /\ ~ay THEN m2 = 0
               ELSE /\ m2 <= Sq(DirScale)
                    /\ Sq(DirScale) < Sq(Abs(d.dx) + 1) + Sq(Abs(d.dy) + 1)
            /\ last.op = "tick" =>
                  IF ~ax /\ ~ay THEN v2 = 0
                  ELSE /\ v2 <= Sq(SPEED * FixedPoint)
                       /\ Sq(SPEED * FixedPoint)
                            < Sq(Abs(player[c].vx) + VelocityResolution)
                              + Sq(Abs(player[c].vy) + VelocityResolution)

\* a tick has run for an entity that holds all four keys and for which the
\* clock had moved: it did not move
C14_Witness ==
    /\ last.op = "tick" /\ now > 0
    /\ \E c \in Registered :
          /\ \A d \in Dirs : player[c].input[d]
          /\ player[c].vx = 0 /\ player[c].vy = 0
          /\ player[c].x = Px(500) /\ player[c].y = Px(300)
\* C15 as stated: once right has been held for exactly one second the
\* entity is at (680, 300), whatever the ticks were
C15_EndsAt680 ==
    nmsgs = 2 => player[1].x = Px(680) /\ player[1].y = Px(300)

\* C15, amended: y stays 300 and x moves only in a tick that runs while
\* right is stored, by 180 px/s times the dt that tick measured (up to
\* 980); so the entity never is further right than 180 px/s times the time
\* covered by ticks, and ends at 680 only when the ticks that ran between
\* the two messages measured one second in total.
C15_Step ==
    LET p == player[1]
        q == player'[1]
    IN  /\ last'.op = "tick" /\ 1 \in Registered =>
              /\ q.y = p.y
              /\ q.x = IF p.input.right
                       THEN Min(Px(XMAX),
                                p.x + (SPEED * FixedPoint * (now - lastTime)) \div MsPerSec)
                       ELSE p.x
        /\ last'.op \in {"message", "clock"} => q.x = p.x /\ q.y = p.y
        /\ 1 \in MapVals(players') =>
              /\ q.y = Px(300)
              /\ q.x >= Px(500)
              /\ q.x <= Px(500) + (SPEED * FixedPoint * lastTime') \div MsPerSec
              /\ nmsgs' = 0 => q.x = Px(500)
C15_MovesByMeasuredDt == [][C15_Step]_vars

\* right was held for a second in which two ticks of half a second ran
C15_Witness ==
    /\ nmsgs = 2 /\ last.op = "message"
    /\ lastTime = now
    /\ player[1].x = Px(680) /\ player[1].y = Px(300)
\* v (pixels) is the position u (fixed point), as such or rounded
IsPosition(v, u) == 2 * Abs(Px(v) - u) <= FixedPoint

\* the list es has exactly one entry per Registry entry, keyed by the
\* entity's id and holding its position, and nothing else
ListsRegistry(es) ==
    /\ Len(es) = Len(players)
    /\ \A j \in 1..Len(es) : es[j].id \in MapKeys(players)
    /\ \A i \in 1..Len(players) :
          \E j \in 1..Len(es) :
              /\ es[j].id = players[i].key
              /\ IsPosition(es[j].x, player[players[i].val].x)
              /\ IsPosition(es[j].y, player[players[i].val].y)

\* C16: every snapshot message that is sent, periodic or at a join, lists
\* exactly the entities of the Registry at that moment, by their ids and
\* with their current positions.
C16_SnapshotListsRegistry ==
    \A i \in SendsOfType("snapshot") : ListsRegistry(sent[i].msg.players)
\* the step of one coordinate over dt ms at velocity v, kept inside [lo, hi]
Stepped(lo, hi, u, v, dt) ==
    LET w == u + (v * dt) \div MsPerSec
    IN  IF w < Px(lo) THEN Px(lo) ELSE IF w > Px(hi) THEN Px(hi) ELSE w

\* C17: a stored input changes only when an input message of its connection
\* is handled, and then to that message's input as a whole; a tick gives
\* every registered entity the velocity of the input stored when the tick
\* starts and moves it by that velocity, so the first tick after an input
\* message uses the new input and nothing of the older one.
C17_Step ==
    /\ \A c \in Conns :
          IF last'.op = "message" /\ last'.conn = c /\ last'.msg.kind = "input"
          THEN \A d \in Dirs :
                  player'[c].input[d] = (last'.msg.input[d] \in TruthyToks)
          ELSE (last'.op = "connection" /\ last'.conn = c)
                   \/ (player'[c].input = player[c].input)
    /\ last'.op = "tick" =>
          \A c \in Registered :
              LET i  == player[c].input
                  p  == player[c]
                  q  == player'[c]
                  dt == now - lastTime
              IN  /\ q.vx = SpeedTimesUnit(i.left, i.right, i.up, i.down, p.speed)
                  /\ q.vy = SpeedTimesUnit(i.up, i.down, i.left, i.right, p.speed)
                  /\ q.x = Stepped(XMIN, XMAX, p.x, q.vx, dt)
                  /\ q.y = Stepped(YMIN, YMAX, p.y, q.vy, dt)
C17_TickUsesStoredInput == [][C17_Step]_vars

\* an entity that a tick had moved right was told to go up and left instead,
\* and the next tick moved it up and left
C17_Witness ==
    /\ last.op = "tick"
    /\ \E c \in Registered :
          /\ player[c].input = [up |-> TRUE, down |-> FALSE, left |-> TRUE, right |-> FALSE]
          /\ player[c].vx < 0 /\ player[c].vy < 0
          /\ player[c].x > Px(500) /\ player[c].y < Px(300)
\* the snapshot entry e shows the state of the player object p
Shows(e, p) ==
    /\ e.id = p.id /\ e.color = p.color
    /\ IsPosition(e.x, p.x) /\ IsPosition(e.y, p.y)
    /\ IsPosition(e.vx, p.vx) /\ IsPosition(e.vy, p.vy)

\* C18: position and velocity of an entity change in simulation ticks only,
\* all four at once and for all registered entities in the same step, the
\* position being stepped by the velocity of that tick; and the entries of a
\* periodic snapshot show, in the Registry's order, the state that the
\* entities of the Registry have at that moment, which therefore is the
\* state after one completed tick (or the state at creation).
C18_Step ==
    /\ \A c \in Conns :
          Kinematics(player'[c]) # Kinematics(player[c]) =>
              \/ last'.op = "connection" /\ last'.conn = c
              \/ last'.op = "tick" /\ c \in Registered
    /\ last'.op = "tick" =>
          /\ lastTime' = now
          /\ \A c \in Registered :
                /\ VelocityDerived(player'[c])
                /\ player'[c].x = Stepped(XMIN, XMAX, player[c].x, player'[c].vx, now - lastTime)
                /\ player'[c].y = Stepped(YMIN, YMAX, player[c].y, player'[c].vy, now - lastTime)
    /\ last'.op = "snapshot" =>
          /\ player' = player /\ players' = players
          /\ \A i \in 1..Len(sent') :
                /\ sent'[i].msg.type = "snapshot"
                /\ Len(sent'[i].msg.players) = Len(players)
                /\ \A j \in 1..Len(players) :
                      Shows(sent'[i].msg.players[j], player[players[j].val])
C18_SnapshotConsistent == [][C18_Step]_vars

\* a periodic snapshot of two entities has been sent to both after a tick
\* moved one of them
C18_Witness ==
    /\ last.op = "snapshot"
    /\ Len(players) = 2 /\ Len(sent) = 2
    /\ \E j \in 1..2 :
          /\ sent[1].msg.players[j].vx # 0
          /\ sent[1].msg.players[j].x # 500
\* what a tick must leave alone in a player object
Identity(p) == <<p.id, p.color, p.speed, p.input, p.lastSeen>>
\* what an input message must leave alone in the sender's player object
Body(p) == <<p.x, p.y, p.vx, p.vy, p.id, p.color, p.speed>>

\* C19: a simulation tick leaves id, color, speed and input of every entity
\* and the Registry's entries as they are, and touches no player object
\* that is not registered; handling an input message leaves x, y, vx, vy,
\* id, color and speed of every entity, every other entity whole, and the
\* Registry's entries as they are.
C19_Step ==
    /\ last'.op = "tick" =>
          /\ players' = players /\ props' = props /\ readyState' = readyState
          /\ \A c \in Conns :
                /\ Identity(player'[c]) = Identity(player[c])
                /\ c \notin Registered => player'[c] = player[c]
    /\ last'.op = "message" /\ last'.msg.kind = "input" =>
          /\ players' = players /\ props' = props /\ readyState' = readyState
          /\ lastTime' = lastTime
          /\ \A c \in Conns :
                /\ Body(player'[c]) = Body(player[c])
                /\ c # last'.conn => player'[c] = player[c]
C19_FrameOfTickAndInput == [][C19_Step]_vars

\* an input message of one of two registered entities has been handled after
\* a tick had run
C19_Witness ==
    /\ last.op = "message" /\ last.msg.kind = "input"
    /\ Len(players) = 2
    /\ player[last.conn].input # NoInput
    /\ \E c \in Registered :
          /\ c # last.conn
          /\ player[c].input = NoInput
          /\ lastTime > player[c].lastSeen
\* C20: handling an input or ping message of a connection whose close event
\* has been handled leaves the Registry's entries, the own properties of the
\* Map object and every registered entity as they are (the departed entity
\* stays out), sends at most the pong to the closed socket, and lets no
\* exception leave the handler.
C20_Step ==
    (/\ last'.op = "message"
     /\ last'.msg.kind \in {"input", "ping"}
     /\ readyState[last'.conn] = "CLOSED") =>
        /\ last'.conn \notin Registered
        /\ players' = players /\ props' = props /\ readyState' = readyState
        /\ \A c \in Conns : c # last'.conn => player'[c] = player[c]
        /\ Body(player'[last'.conn]) = Body(player[last'.conn])
        /\ \A i \in 1..Len(sent') :
              sent'[i].to = last'.conn /\ sent'[i].msg.type = "pong"
        /\ ~uncaught'
C20_LateMessageIgnored == [][C20_Step]_vars

\* a ping of a closed connection has been handled while another entity was
\* registered, and the send to the closed socket threw
C20_Witness ==
    /\ last.op = "message" /\ last.msg.kind = "ping"
    /\ readyState[last.conn] = "CLOSED"
    /\ last.caught /\ ~uncaught
    /\ Len(players) = 1
    /\ last.conn \notin Registered
====
